---- MODULE Spec2Model ----
(***************************************************************************)
(* Gaia hub: the request pipeline of HubServer (hub/src/server/server.js)  *)
(* behind the HTTP endpoints of makeHttpServer (hub/src/server/config.ts), *)
(* and the token issuing functions of the client (gaia.js/src/wire.js).    *)
(*                                                                         *)
(* Specifications: Spec (the hub serving two concurrent requests),         *)
(* LiveSpec (Spec with promises that settle), VerifySpec (the hub          *)
(* verifying one token that carries an association token), ClientSpec      *)
(* (one call of the client), EciesSpec (one encryption and decryption with *)
(* the ECIES functions of hub/src/server/config.ts).                       *)
(*                                                                         *)
(* Strings that the code inspects character by character (paths, scope     *)
(* domains, JSON string values) are sequences of one-character strings.    *)
(* The ./authentication module and HubServer.handleAuthBump are not part   *)
(* of the sources at hand; they are modelled from the specification text   *)
(* (sections 4.2 and 4.4).                                                 *)
(***************************************************************************)
EXTENDS Integers, Sequences, FiniteSets, TLC

VARIABLES
  config,   \* the HubServer fields set by the constructor
  floor,    \* RevocationRegistry: address -> oldest valid timestamp (partial)
  reqs,     \* per request slot: the request, where its handler stands, its log
  client    \* a gaia.js client: the call it makes and what the call returned

vars == <<config, floor, reqs, client>>

\* Largest timestamp a token or a bump carries.
MaxTime == 1

Times == 0..MaxTime

\* Request slots (concurrently handled requests).
Reqs == {"r1", "r2"}

Addrs == {"addrA", "addrB"}

\* blockstack publicKeyToAddress: the address derived from a public key.
publicKeyToAddress(k) == IF k = "kA" THEN "addrA" ELSE "addrB"

\* getChallengeText(serverName): the text a token must embed.
getChallengeText(serverName) == <<"gaiahub", serverName>>

(***************************************************************************)
(* JavaScript string helpers used by the handlers.                         *)
(***************************************************************************)
\* String.prototype.startsWith
startsWith(s, p) == Len(p) <= Len(s) /\ SubSeq(s, 1, Len(p)) = p

\* String.prototype.endsWith
endsWith(s, p) == Len(p) <= Len(s) /\ SubSeq(s, Len(s) - Len(p) + 1, Len(s)) = p

(***************************************************************************)
(* Tokens.  A token is what the bearer string decodes to:                  *)
(*   ver      "v1" | "legacy" | "bad" (unknown prefix)                     *)
(*   iss      the public key the token names as signer                     *)
(*   sigOK    the signature verifies against iss                           *)
(*   chal     the challenge text the token was built for                   *)
(*   expired  exp is not in the future at verification time                *)
(*   iat      effective issuance time                                      *)
(*   hubUrl   <<>> (absent) or <<url>>                                     *)
(*   assoc    <<>> (absent) or <<association token>>                       *)
(*   scopes   sequence of [scope, domain]                                  *)
(***************************************************************************)
Scope(kind, domain) == [scope |-> kind, domain |-> domain]

Token(ver, iss, sigOK, chal, expired, iat, hubUrl, assoc, scopes) ==
  [ver |-> ver, iss |-> iss, sigOK |-> sigOK, chal |-> chal, expired |-> expired,
   iat |-> iat, hubUrl |-> hubUrl, assoc |-> assoc, scopes |-> scopes]

AssociationToken(child, iss, sigOK, expired) ==
  [childToAssociate |-> child, iss |-> iss, sigOK |-> sigOK, expired |-> expired]

\* Result of a fallible synchronous call: err = "" when it returned.
Ok(v) == [err |-> "", about |-> "", value |-> v]

Throw(kind, about) == [err |-> kind, about |-> about, value |-> ""]

(***************************************************************************)
(* RevocationRegistry.isRevoked (spec 4.4): true iff a floor exists and    *)
(* the token's effective timestamp is strictly below it.                   *)
(***************************************************************************)
isRevokedOffByOne(fl, address, ts) == address \in DOMAIN fl /\ ts <= fl[address]

isRevoked(fl, address, ts) == address \in DOMAIN fl /\ ts < fl[address]

(***************************************************************************)
(* validateAuthorizationHeader (spec 4.2): the signing address the token   *)
(* authorizes, or the validation failure.                                  *)
(***************************************************************************)
hubUrlOK(tok, cfg) ==
  \/ ~cfg.requireCorrectHubUrl
  \/ /\ tok.hubUrl # <<>>
     /\ \/ tok.hubUrl[1] = cfg.serverName
        \/ tok.hubUrl[1] \in cfg.validHubUrls

associationOKAnyChild(tok) ==
  \/ tok.assoc = <<>>
  \/ /\ tok.assoc[1].sigOK
     /\ ~tok.assoc[1].expired

associationOK(tok) ==
  \/ tok.assoc = <<>>
  \/ /\ tok.assoc[1].sigOK
     /\ ~tok.assoc[1].expired
     /\ tok.assoc[1].childToAssociate = tok.iss

recoveredAddress(tok) ==
  IF tok.ver = "v1" /\ tok.assoc # <<>>
    THEN publicKeyToAddress(tok.assoc[1].iss)
    ELSE publicKeyToAddress(tok.iss)

validateAuthorizationHeader(tok, cfg, address, fl) ==
  IF tok.ver \notin {"legacy", "v1"} THEN Throw("ValidationError", "token")
  ELSE IF ~tok.sigOK THEN Throw("ValidationError", "signature")
  ELSE IF tok.chal # getChallengeText(cfg.serverName)
    THEN Throw("ValidationError", "challenge")
  ELSE IF publicKeyToAddress(tok.iss) # address
    THEN Throw("ValidationError", "address")
  ELSE IF tok.ver = "v1" /\ tok.expired THEN Throw("ValidationError", "exp")
  ELSE IF tok.ver = "v1" /\ ~hubUrlOK(tok, cfg) THEN Throw("ValidationError", "hubUrl")
  ELSE IF tok.ver = "v1" /\ ~associationOK(tok)
    THEN Throw("ValidationError", "associationToken")
  ELSE IF isRevoked(fl, recoveredAddress(tok), tok.iat) \/ tok \in cfg.blacklist
    THEN Throw("AuthTokenTimestampValidationError", recoveredAddress(tok))
  ELSE Ok(recoveredAddress(tok))

\* getAuthenticationScopes: the scopes the token declares (legacy: none).
getAuthenticationScopes(tok) == IF tok.ver = "v1" THEN tok.scopes ELSE <<>>

(***************************************************************************)
(* HubServer.validate: token verification, then the whitelist.             *)
(***************************************************************************)
whitelistedClaimedAddress(cfg, address, signingAddress) ==
  cfg.whitelist = <<>> \/ address \in cfg.whitelist[1]

\* this.whitelist && !(this.whitelist.includes(signingAddress)), negated
whitelisted(cfg, address, signingAddress) ==
  cfg.whitelist = <<>> \/ signingAddress \in cfg.whitelist[1]

validate(cfg, fl, address, tok) ==
  LET v == validateAuthorizationHeader(tok, cfg, address, fl) IN
  IF v.err # "" THEN v
  ELSE IF ~whitelisted(cfg, address, v.value)
    THEN Throw("ValidationError", v.value)
  ELSE v

(***************************************************************************)
(* Scope authorization of a write (handleRequest, server.js 79-105).       *)
(***************************************************************************)
\* the domains of the scopes of one kind, in token order
scopeDomains(scopes, kind) ==
  LET sel == SelectSeq(scopes, LAMBDA s : s.scope = kind)
  IN  [i \in 1..Len(sel) |-> sel[i].domain]

\* the least index of a set of indices, 0 when there is none
first(at) == IF at = {} THEN 0 ELSE CHOOSE i \in at : \A j \in at : i <= j

\* writePrefixes.find((p) => (path.startsWith(p))): <<the first prefix the
\* path starts with>>, or <<>> (undefined)
findPrefix(writePrefixes, path) ==
  LET i == first({j \in 1..Len(writePrefixes) : startsWith(path, writePrefixes[j])})
  IN  IF i = 0 THEN <<>> ELSE <<writePrefixes[i]>>

\* writePaths.find((p) => (path === p))
findPath(writePaths, path) ==
  LET i == first({j \in 1..Len(writePaths) : path = writePaths[j]})
  IN  IF i = 0 THEN <<>> ELSE <<writePaths[i]>>

\* !!x for x a string or undefined: undefined and "" are falsy
truthy(found) == found # <<>> /\ found[1] # <<>>

\* TRUE iff the scope check lets the write to path through
authorizedByScopes(path, scopes) ==
  LET writePrefixes == scopeDomains(scopes, "putFilePrefix")
      writePaths    == scopeDomains(scopes, "putFile")
      matchPrefix   == truthy(findPrefix(writePrefixes, path))
      matchPath     == truthy(findPath(writePaths, path))
  IN  IF Len(writePrefixes) > 0 \/ Len(writePaths) > 0
        THEN matchPrefix \/ matchPath
        ELSE TRUE

(***************************************************************************)
(* HubServer.getReadURLPrefix and the URL rewrite (server.js 57-63,        *)
(* 113-121).  readURL is <<>> (unset) or <<url>>.                          *)
(***************************************************************************)
\* driver.getReadURLPrefix()
driverReadURLPrefix == <<"d", "/">>

getReadURLPrefixDriverOnly(cfg) == driverReadURLPrefix

getReadURLPrefix(cfg) ==
  IF cfg.readURL # <<>> /\ cfg.readURL[1] # <<>>
    THEN cfg.readURL[1]
    ELSE driverReadURLPrefix

rewriteReadURLAnyURL(cfg, readURL) ==
  LET driverPrefix  == driverReadURLPrefix
      readURLPrefix == getReadURLPrefix(cfg)
  IN  IF readURLPrefix # driverPrefix
        THEN readURLPrefix \o SubSeq(readURL, Len(driverPrefix) + 1, Len(readURL))
        ELSE readURL

rewriteReadURL(cfg, readURL) ==
  LET driverPrefix  == driverReadURLPrefix
      readURLPrefix == getReadURLPrefix(cfg)
  IN  IF readURLPrefix # driverPrefix /\ startsWith(readURL, driverPrefix)
        THEN readURLPrefix \o SubSeq(readURL, Len(driverPrefix) + 1, Len(readURL))
        ELSE readURL

(***************************************************************************)
(* The synchronous part of HubServer.handleRequest (server.js 65-111):     *)
(* validate, scope authorization, build the write command, call            *)
(* checkProofs.  It either throws or leaves a promise pending.             *)
(***************************************************************************)
NoCmd == [storageTopLevel |-> "", path |-> <<>>, contentType |-> <<>>]

\* the arguments of a call of proofChecker.checkProofs
NoProofs == [address |-> "", path |-> <<>>, readURLPrefix |-> <<>>]

Sync(pc, err, about, log, cmd, proofs) ==
  [pc |-> pc, err |-> err, about |-> about, log |-> log, cmd |-> cmd,
   proofs |-> proofs]

handleRequestSkipScopes(cfg, fl, address, path, tok, ctype) ==
  LET v == validate(cfg, fl, address, tok)
      contentType == IF ctype = <<>> THEN <<"application/octet-stream">> ELSE ctype
  IN  IF v.err # ""
        THEN Sync("thrown", v.err, v.about, <<"validate">>, NoCmd, NoProofs)
        ELSE Sync("awaitProofs", "", "",
                  <<"validate", "validated", "authorized", "checkProofs">>,
                  [storageTopLevel |-> address, path |-> path,
                   contentType |-> contentType],
                  [address |-> address, path |-> path,
                   readURLPrefix |-> getReadURLPrefix(cfg)])

handleRequestProofsFirst(cfg, fl, address, path, tok, ctype) ==
  LET contentType == IF ctype = <<>> THEN <<"application/octet-stream">> ELSE ctype
  IN  Sync("awaitProofs", "", "", <<"checkProofs">>,
           [storageTopLevel |-> address, path |-> path, contentType |-> contentType],
           [address |-> address, path |-> path,
            readURLPrefix |-> getReadURLPrefix(cfg)])

handleRequest(cfg, fl, address, path, tok, ctype) ==
  LET v == validate(cfg, fl, address, tok)
      contentType == IF ctype = <<>> THEN <<"application/octet-stream">> ELSE ctype
      scopes == getAuthenticationScopes(tok)
  IN  IF v.err # ""
        THEN Sync("thrown", v.err, v.about, <<"validate">>, NoCmd, NoProofs)
      ELSE IF ~authorizedByScopes(path, scopes)
        THEN Sync("thrown", "ValidationError", address,
                  <<"validate", "validated">>, NoCmd, NoProofs)
      ELSE Sync("awaitProofs", "", "",
                <<"validate", "validated", "authorized", "checkProofs">>,
                [storageTopLevel |-> address, path |-> path,
                 contentType |-> contentType],
                [address |-> address, path |-> path,
                 readURLPrefix |-> getReadURLPrefix(cfg)])

handleListFilesUnvalidated(cfg, fl, address, tok) ==
  Sync("awaitList", "", "", <<"validate", "listFiles">>, NoCmd, NoProofs)

\* HubServer.handleListFiles (server.js 50-55), synchronous part
handleListFiles(cfg, fl, address, tok) ==
  LET v == validate(cfg, fl, address, tok)
  IN  IF v.err # ""
        THEN Sync("thrown", v.err, v.about, <<"validate">>, NoCmd, NoProofs)
        ELSE Sync("awaitList", "", "", <<"validate", "validated", "listFiles">>, NoCmd, NoProofs)

(***************************************************************************)
(* JSON values of a request body field and the JavaScript conversions the  *)
(* revoke endpoint applies to oldestValidTimestamp (config.ts 279-290).    *)
(***************************************************************************)
Undefined == [t |-> "undefined", n |-> 0, s |-> <<>>]

Num(n) == [t |-> "number", n |-> n, s |-> <<>>]

Str(s) == [t |-> "string", n |-> 0, s |-> s]

Digits == <<"0", "1", "2", "3", "4", "5", "6", "7", "8", "9">>

isDigit(c) == \E d \in 1..10 : Digits[d] = c

digitValue(c) == (CHOOSE d \in 1..10 : Digits[d] = c) - 1

\* Number.prototype.toString for an integer
RECURSIVE natToString(_)
natToString(n) ==
  IF n < 10 THEN <<Digits[n + 1]>>
  ELSE natToString(n \div 10) \o <<Digits[(n % 10) + 1]>>

numberToString(n) == IF n < 0 THEN <<"-">> \o natToString(0 - n) ELSE natToString(n)

\* !v
falsy(v) ==
  \/ v.t = "undefined"
  \/ v.t = "number" /\ v.n = 0
  \/ v.t = "string" /\ v.s = <<>>

\* the value of the longest run of digits s starts with, after acc
RECURSIVE digitsValue(_, _)
digitsValue(s, acc) ==
  IF s = <<>> \/ ~isDigit(Head(s)) THEN acc
  ELSE digitsValue(Tail(s), acc * 10 + digitValue(Head(s)))

\* parseInt(v): <<>> is NaN, <<n>> the integer n
parseIntString(s) ==
  LET neg  == s # <<>> /\ Head(s) = "-"
      rest == IF s # <<>> /\ Head(s) \in {"-", "+"} THEN Tail(s) ELSE s
  IN  IF rest = <<>> \/ ~isDigit(Head(rest)) THEN <<>>
      ELSE IF neg THEN <<0 - digitsValue(rest, 0)>>
      ELSE <<digitsValue(rest, 0)>>

parseInt(v) ==
  IF v.t = "string" THEN parseIntString(v.s)
  ELSE IF v.t = "number" THEN parseIntString(numberToString(v.n))
  ELSE <<>>

\* Number.isFinite of a parseInt result
isFinite(x) == x # <<>>

\* req.headers['content-length'] > 4096
MaxJsonLength == 4096

(***************************************************************************)
(* The checks of the revoke endpoint that precede the bump                 *)
(* (config.ts 274-290): "" when the request goes on to handleAuthBump,     *)
(* else the message of the 400 response.                                   *)
(***************************************************************************)
revokePrecheck(clen, body) ==
  IF clen > MaxJsonLength THEN "Invalid JSON: too long"
  ELSE IF falsy(body) THEN "Invalid JSON: missing oldestValidTimestamp"
  ELSE IF ~isFinite(parseInt(body))
    THEN "Invalid JSON: oldestValidTimestamp is not a valid integer"
  ELSE ""

(***************************************************************************)
(* HubServer.handleAuthBump and RevocationRegistry.bump (spec 4.4, 4.5).   *)
(* handleAuthBump validates the token like every handler and leaves the    *)
(* registry's read-modify-write pending; bump is that read-modify-write,   *)
(* done in one step per address.                                           *)
(***************************************************************************)
handleAuthBump(cfg, fl, address, tok) ==
  LET v == validate(cfg, fl, address, tok)
  IN  IF v.err # ""
        THEN Sync("rejected", v.err, v.about, <<"validate">>, NoCmd, NoProofs)
        ELSE Sync("awaitBump", "", v.value, <<"validate", "validated", "bump">>, NoCmd, NoProofs)

\* the registry with the floor of address set to ts
setFloor(fl, address, ts) ==
  [a \in DOMAIN fl \cup {address} |-> IF a = address THEN ts ELSE fl[a]]

bumpAnyCaller(fl, address, ts, authenticatedCaller) ==
  IF ts < 0 THEN [err |-> "ValidationError", floor |-> fl]
  ELSE IF address \in DOMAIN fl /\ ts < fl[address]
    THEN [err |-> "ValidationError", floor |-> fl]
  ELSE [err |-> "", floor |-> setFloor(fl, address, ts)]

bumpOverwrites(fl, address, ts, authenticatedCaller) ==
  IF authenticatedCaller # address THEN [err |-> "ValidationError", floor |-> fl]
  ELSE IF ts < 0 THEN [err |-> "ValidationError", floor |-> fl]
  ELSE [err |-> "", floor |-> setFloor(fl, address, ts)]

bump(fl, address, ts, authenticatedCaller) ==
  IF authenticatedCaller # address THEN [err |-> "ValidationError", floor |-> fl]
  ELSE IF ts < 0 THEN [err |-> "ValidationError", floor |-> fl]
  ELSE IF address \in DOMAIN fl /\ ts < fl[address]
    THEN [err |-> "ValidationError", floor |-> fl]
  ELSE [err |-> "", floor |-> setFloor(fl, address, ts)]

(***************************************************************************)
(* writeResponse and the error mapping of each endpoint's .catch           *)
(* (config.ts 224-236, 257-265, 296-304).                                  *)
(***************************************************************************)
NoResponse == [status |-> 0, error |-> "", message |-> "", publicURL |-> <<>>]

writeResponse(status, error, message, publicURL) ==
  [status |-> status, error |-> error, message |-> message, publicURL |-> publicURL]

storeCatch(err, about) ==
  IF err = "ValidationError" THEN writeResponse(401, err, about, <<>>)
  ELSE IF err = "AuthTokenTimestampValidationError"
    THEN writeResponse(401, err, about, <<>>)
  ELSE IF err = "BadPathError" THEN writeResponse(403, err, about, <<>>)
  ELSE IF err = "NotEnoughProofError" THEN writeResponse(402, err, about, <<>>)
  ELSE writeResponse(500, "", "Server Error", <<>>)

listFilesCatch(err, about) ==
  IF err = "ValidationError" THEN writeResponse(401, err, about, <<>>)
  ELSE IF err = "AuthTokenTimestampValidationError"
    THEN writeResponse(401, err, about, <<>>)
  ELSE writeResponse(500, "", "Server Error", <<>>)

revokeCatch(err, about) ==
  IF err = "ValidationError" THEN writeResponse(401, err, about, <<>>)
  ELSE IF err = "BadPathError" THEN writeResponse(403, err, about, <<>>)
  ELSE writeResponse(500, "", "Server Error", <<>>)

(***************************************************************************)
(* The server configuration (configDefaults, config.ts 36-56, as the       *)
(* HubServer constructor stores it, server.js 23-33) and the requests.     *)
(***************************************************************************)
ServerName == "gaia-0"

Challenge == getChallengeText(ServerName)

HubConfig(whitelist, readURL) ==
  [serverName |-> ServerName, whitelist |-> whitelist, blacklist |-> {},
   validHubUrls |-> {}, requireCorrectHubUrl |-> FALSE, readURL |-> readURL]

\* no whitelist and no read URL (the defaults); a whitelist and a read URL;
\* a read URL that is the driver's own prefix
Configs ==
  { HubConfig(<<>>, <<>>), HubConfig(<<{"addrA"}>>, << <<"h", "/">> >>),
    HubConfig(<<>>, <<driverReadURLPrefix>>) }

V1(k, t, scopes) == Token("v1", k, TRUE, Challenge, FALSE, t, <<>>, <<>>, scopes)

BadSignature == Token("v1", "kA", FALSE, Challenge, FALSE, MaxTime, <<>>, <<>>, <<>>)

Malformed == Token("bad", "kA", TRUE, Challenge, FALSE, MaxTime, <<>>, <<>>, <<>>)

\* signed by kB, which kA has associated: the signing address is addrA
Delegated ==
  Token("v1", "kB", TRUE, Challenge, FALSE, MaxTime, <<>>,
        <<AssociationToken("kB", "kA", TRUE, FALSE)>>, <<>>)

PathFooBar == <<"f", "o", "o", "/", "b", "a", "r">>

PathAB == <<"a", "/", "b">>

PathBA == <<"b", "/", "a">>

PrefixA == <<Scope("putFilePrefix", <<"a", "/">>)>>

PrefixEmpty == <<Scope("putFilePrefix", <<>>)>>

Request(kind, address, path, tok, ctype, clen, body) ==
  [kind |-> kind, address |-> address, path |-> path, tok |-> tok,
   ctype |-> ctype, clen |-> clen, body |-> body]

NoReq == Request("none", "", <<>>, Malformed, <<>>, 0, Undefined)

StoreInputs ==
  { Request("store", "addrA", PathFooBar, V1("kA", t, <<>>), <<>>, 0, Undefined) :
      t \in Times }
  \cup
  { Request("store", "addrA", PathFooBar, tok, <<>>, 0, Undefined) :
      tok \in {BadSignature, Malformed} }
  \cup
  { Request("store", "addrB", PathFooBar, tok, <<>>, 0, Undefined) :
      tok \in {V1("kB", MaxTime, <<>>), V1("kA", MaxTime, <<>>), Delegated} }
  \cup
  { Request("store", "addrA", p, V1("kA", MaxTime, PrefixA), <<"text/plain">>,
            0, Undefined) :
      p \in {PathAB \o <<"/", "/">>, PathBA} }
  \cup
  { Request("store", "addrA", PathAB, V1("kA", MaxTime, PrefixEmpty), <<>>, 0,
            Undefined) }

ListInputs ==
  { Request("list", "addrA", <<>>, V1("kA", t, <<>>), <<>>, 2, Undefined) :
      t \in Times }
  \cup
  { Request("list", "addrB", <<>>, V1("kB", MaxTime, <<>>), <<>>, 2, Undefined),
    Request("list", "addrA", <<>>, BadSignature, <<>>, 2, Undefined),
    Request("list", "addrA", <<>>, V1("kA", MaxTime, PrefixA), <<>>, 2, Undefined),
    Request("list", "addrA", <<>>, V1("kA", MaxTime, <<>>), <<>>, 5000, Undefined) }

RevokeBodies ==
  {Undefined, Num(0 - 1), Str(<<"0">>), Str(<<"1">>), Str(<<"x">>)}
  \cup {Num(t) : t \in Times}

RevokeInputs ==
  { Request("revoke", "addrA", <<>>, V1("kA", MaxTime, <<>>), <<>>, 30, b) :
      b \in RevokeBodies }
  \cup
  { Request("revoke", "addrA", <<>>, tok, <<>>, 30, Num(MaxTime)) :
      tok \in {V1("kA", 0, <<>>), V1("kB", MaxTime, <<>>), BadSignature} }
  \cup
  { Request("revoke", "addrB", <<>>, tok, <<>>, 30, Num(MaxTime)) :
      tok \in {V1("kB", MaxTime, <<>>), Delegated} }
  \cup
  { Request("revoke", "addrA", <<>>, V1("kA", MaxTime, <<>>), <<>>, 5000,
            Num(MaxTime)) }

\* what the collaborators' promises reject with
ProofErrors == {"NotEnoughProofError"}

DriverErrors == {"BadPathError", "Error"}

\* the read URLs performWrite resolves with
DriverURLs(cmd) ==
  { driverReadURLPrefix \o <<cmd.storageTopLevel>>,
    <<"x", "/">> \o <<cmd.storageTopLevel>> }

(***************************************************************************)
(* A request slot: the request, where its handler stands (pc), the steps   *)
(* taken so far (log), the error it failed with, the response written, the *)
(* write command, the timestamp handed to handleAuthBump, the URL          *)
(* performWrite resolved with, and the arguments checkProofs was called    *)
(* with.                                                                   *)
(***************************************************************************)
Slot(pc, req, log, err, about, res, cmd, arg, readURL, proofs) ==
  [pc |-> pc, req |-> req, log |-> log, err |-> err, about |-> about,
   res |-> res, cmd |-> cmd, arg |-> arg, readURL |-> readURL,
   proofs |-> proofs]

Idle == Slot("idle", NoReq, <<>>, "", "", NoResponse, NoCmd, <<>>, <<>>, NoProofs)

\* Express's default error handler: it answers an exception that left a
\* route handler (an Error without a status) with 500
finalhandler(err) == writeResponse(500, "", "Internal Server Error", <<>>)

\* the slot after the synchronous part h of a handler ran for request q
started(q, h, arg) ==
  IF h.pc = "thrown"
    THEN Slot("uncaught", q, h.log, h.err, h.about, finalhandler(h.err), h.cmd,
              arg, <<>>, h.proofs)
    ELSE Slot(h.pc, q, h.log, h.err, h.about, NoResponse, h.cmd, arg, <<>>,
              h.proofs)

\* express.json() ran before the route handler: the body is parsed
jsonParsed(s) == [s EXCEPT !.log = <<"json">> \o @]

\* the slot after the handler's .catch answered error err
caught(s, err, about, res) ==
  [s EXCEPT !.pc = "done", !.err = err, !.about = about, !.res = res,
            !.log = @ \o <<"respond">>]

(***************************************************************************)
(* The gaia.js client (gaia.js/src/wire.js).                               *)
(*                                                                         *)
(* A secret key is <<hex>> or <<hex, "01">> (the 64 hex digits, then the   *)
(* compression suffix).  A challenge text is a JSON text: one that does    *)
(* not parse, null, or an array of strings.  An optional string is <<>>    *)
(* (undefined) or <<s>>.                                                   *)
(***************************************************************************)
FOUR_MONTH_SECONDS == 60 * 60 * 24 * 31 * 4

\* secretKey.slice(0, 64)
slice64(secretKey) == SubSeq(secretKey, 1, 1)

\* blockstack getPublicKeyFromPrivate
getPublicKeyFromPrivate(secretKey) == IF secretKey = <<"sA">> THEN "kA" ELSE "kB"

Json(t, a) == [t |-> t, a |-> a]

NotJson == Json("invalid", <<>>)

JsonNull == Json("null", <<>>)

JsonArray(a) == Json("array", a)

\* parsedChallenge[i] === v, for a parsed array (i counts from 0)
elementIs(parsed, i, v) == i + 1 <= Len(parsed.a) /\ parsed.a[i + 1] = v

NoToken == [ver |-> "none"]

Returned(token) == [err |-> "", message |-> "", token |-> token]

Thrown(kind, message) == [err |-> kind, message |-> message, token |-> NoToken]

\* makeLegacyAuthToken (wire.js 12-35)
makeLegacyAuthToken(challengeText, secretKey) ==
  LET sk == slice64(secretKey) IN
  IF challengeText.t = "invalid"
    THEN Thrown("Error", "Failed in parsing legacy challenge text from the gaia hub.")
  ELSE IF challengeText.t = "null"
    THEN Thrown("TypeError", "Cannot read property '0' of null")
  ELSE IF /\ elementIs(challengeText, 0, "gaiahub")
          /\ elementIs(challengeText, 3, "blockstack_storage_please_sign")
    THEN Returned([ver |-> "legacy", encoding |-> "base64",
                   publickey |-> getPublicKeyFromPrivate(sk),
                   signature |-> [key |-> sk \o <<"01">>, digest |-> challengeText]])
  ELSE Thrown("Error",
              "Failed to connect to legacy gaia hub. If you operate this hub, please update.")

\* makeV1AuthToken (wire.js 37-56)
makeV1AuthTokenNoWindow(secretKey, challengeText, associationToken, hubUrl, now, salt) ==
  LET sk == slice64(secretKey)
      publicKeyHex == getPublicKeyFromPrivate(sk)
      payload == [gaiaChallenge |-> challengeText, iss |-> publicKeyHex,
                  exp |-> now,
                  associationToken |-> associationToken,
                  hubUrl |-> hubUrl, salt |-> salt]
  IN  Returned([ver |-> "v1", payload |-> payload, signedWith |-> sk])

\* makeV1AuthToken (wire.js 37-56); now is new Date()/1000, salt the random
\* bytes drawn
makeV1AuthToken(secretKey, challengeText, associationToken, hubUrl, now, salt) ==
  LET sk == slice64(secretKey)
      publicKeyHex == getPublicKeyFromPrivate(sk)
      payload == [gaiaChallenge |-> challengeText, iss |-> publicKeyHex,
                  exp |-> FOUR_MONTH_SECONDS + now,
                  associationToken |-> associationToken,
                  hubUrl |-> hubUrl, salt |-> salt]
  IN  Returned([ver |-> "v1", payload |-> payload, signedWith |-> sk])

\* makeAssociationToken (wire.js 72-82): the signed token, without a prefix
makeAssociationToken(secretKey, childPublicKey, now, salt) ==
  LET sk == slice64(secretKey)
      publicKeyHex == getPublicKeyFromPrivate(sk)
      payload == [childToAssociate |-> childPublicKey, iss |-> publicKeyHex,
                  exp |-> FOUR_MONTH_SECONDS + now, salt |-> salt]
  IN  Returned([ver |-> "", payload |-> payload, signedWith |-> sk])

\* hubInfo.latest_auth_version
\*   && parseInt(hubInfo.latest_auth_version.slice(1), 10) >= 1
handlesV1Auth(hubInfo) ==
  LET v == hubInfo.latest_auth_version IN
  /\ v # <<>>
  /\ v[1] # <<>>
  /\ LET n == parseIntString(Tail(v[1])) IN n # <<>> /\ n[1] >= 1

makeAuthTokenAlwaysV1(hubInfo, signerKeyHex, hubUrl, associationToken, now, salt) ==
  makeV1AuthToken(signerKeyHex, hubInfo.challenge_text, associationToken, hubUrl,
                  now, salt)

\* makeAuthToken (wire.js 58-69)
makeAuthToken(hubInfo, signerKeyHex, hubUrl, associationToken, now, salt) ==
  LET challengeText == hubInfo.challenge_text IN
  IF ~handlesV1Auth(hubInfo)
    THEN makeLegacyAuthToken(challengeText, signerKeyHex)
    ELSE makeV1AuthToken(signerKeyHex, challengeText, associationToken, hubUrl,
                         now, salt)

\* the hub_info a hub answers with (config.ts 315-317)
HubInfo(challenge_text, latest_auth_version) ==
  [challenge_text |-> challenge_text, latest_auth_version |-> latest_auth_version]

LegacyChallenge ==
  JsonArray(<<"gaiahub", "0", ServerName, "blockstack_storage_please_sign">>)

ChallengeTexts ==
  { LegacyChallenge,
    JsonArray(LegacyChallenge.a \o <<"extra">>),
    JsonArray(<<"gaiahub", "0", ServerName>>),
    JsonArray(<<"hub", "0", ServerName, "blockstack_storage_please_sign">>),
    JsonArray(<<"gaiahub", "0", ServerName, "please_sign">>),
    JsonArray(<<>>),
    JsonNull,
    NotJson }

\* absent, "", "v0", "v1", "v2", "v10", "vx", "1"
AuthVersions ==
  { <<>>, << <<>> >>, << <<"v", "0">> >>, << <<"v", "1">> >>, << <<"v", "2">> >>,
    << <<"v", "1", "0">> >>, << <<"v", "x">> >>, << <<"1">> >> }

SecretKeys == { <<"sA">>, <<"sB", "01">> }

Salts == {"salt1", "salt2"}

ClientCall(call, hubInfo, secretKey, associationToken, now) ==
  [call |-> call, hubInfo |-> hubInfo, secretKey |-> secretKey,
   hubUrl |-> <<"https://hub">>, associationToken |-> associationToken, now |-> now,
   childPublicKey |-> ""]

\* a direct call of makeV1AuthToken, with or without its optional arguments
V1Call(secretKey, challengeText, associationToken, hubUrl, now) ==
  [ClientCall("makeV1AuthToken", HubInfo(challengeText, <<>>), secretKey,
              associationToken, now) EXCEPT !.hubUrl = hubUrl]

AssociationCall(secretKey, childPublicKey, now) ==
  [ClientCall("makeAssociationToken", HubInfo(NotJson, <<>>), secretKey, <<>>, now)
     EXCEPT !.childPublicKey = childPublicKey]

ClientCalls ==
  { ClientCall(call, HubInfo(c, v), k, a, now) :
      call \in {"makeAuthToken", "makeLegacyAuthToken"},
      c \in ChallengeTexts, v \in AuthVersions, k \in SecretKeys,
      a \in {<<>>, <<"assoc">>}, now \in Times }
  \cup
  { V1Call(k, c, a, h, now) :
      k \in SecretKeys, c \in ChallengeTexts, a \in {<<>>, <<"assoc">>},
      h \in {<<>>, <<"https://hub">>}, now \in Times }
  \cup
  { AssociationCall(k, child, now) :
      k \in SecretKeys, child \in {"kA", "kB"}, now \in Times }

NoCall == ClientCall("none", HubInfo(NotJson, <<>>), <<"sA">>, <<>>, 0)

\* a client: the call it is about to make (pc "ready") or made (pc "done")
Client(pc, in, out) == [pc |-> pc, in |-> in, out |-> out]

NoClient == Client("off", NoCall, Thrown("", ""))

TypeOK ==
  /\ config \in Configs
  /\ DOMAIN floor \subseteq Addrs
  /\ \A a \in DOMAIN floor : floor[a] \in Times
  /\ \A r \in Reqs :
       reqs[r].pc \in {"idle", "awaitProofs", "awaitWrite", "awaitList",
                       "awaitBump", "uncaught", "done"}
  /\ client.pc \in {"off", "ready", "done", "encrypted", "decrypted"}

Init ==
  /\ config \in Configs
  /\ floor = [a \in {} |-> 0]
  /\ reqs = [r \in Reqs |-> Idle]
  /\ client = NoClient

(***************************************************************************)
(* POST /store/<address>/<path> (config.ts 212-238).                       *)
(***************************************************************************)
\* the filename handed to handleRequest: one trailing "/" removed
storeFilenameStripsTwice(raw) ==
  LET once == IF endsWith(raw, <<"/">>) THEN SubSeq(raw, 1, Len(raw) - 1) ELSE raw
  IN  IF endsWith(once, <<"/">>) THEN SubSeq(once, 1, Len(once) - 1) ELSE once

\* the route's filename (config.ts 214-217): one trailing '/' is dropped
storeFilename(raw) ==
  IF endsWith(raw, <<"/">>) THEN SubSeq(raw, 1, Len(raw) - 1) ELSE raw

\* checkProofs settled: .then(() => performWrite(writeCommand)), or .catch
onCheckProofsIgnoresFailure(s, e) ==
  IF e = ""
    THEN [s EXCEPT !.pc = "awaitWrite", !.log = @ \o <<"proofs", "performWrite">>]
    ELSE [s EXCEPT !.pc = "awaitWrite", !.log = @ \o <<"performWrite">>]

onCheckProofsRetries(s, e) ==
  IF e = ""
    THEN [s EXCEPT !.pc = "awaitWrite", !.log = @ \o <<"proofs", "performWrite">>]
  ELSE IF Len(s.log) < 5
    THEN [s EXCEPT !.log = @ \o <<"checkProofs">>]
  ELSE caught(s, e, "proof", storeCatch(e, "proof"))

onCheckProofs(s, e) ==
  IF e = ""
    THEN [s EXCEPT !.pc = "awaitWrite", !.log = @ \o <<"proofs", "performWrite">>]
    ELSE caught(s, e, "proof", storeCatch(e, "proof"))

onPerformWriteRewritesAnyway(cfg, s, e, readURL) ==
  [s EXCEPT !.pc = "done",
            !.log = @ \o (IF e = "" THEN <<"written">> ELSE <<>>)
                      \o <<"rewrite", "respond">>,
            !.err = e,
            !.readURL = <<readURL>>,
            !.res = writeResponse(202, "", "", rewriteReadURL(cfg, readURL))]

\* performWrite settled: the rewrite and the 202 response, or .catch
onPerformWrite(cfg, s, e, readURL) ==
  IF e = ""
    THEN [s EXCEPT !.pc = "done",
                   !.log = @ \o <<"written", "rewrite", "respond">>,
                   !.readURL = <<readURL>>,
                   !.res = writeResponse(202, "", "", rewriteReadURL(cfg, readURL))]
    ELSE caught(s, e, "driver", storeCatch(e, "driver"))

\* The route handler up to the pending checkProofs promise.  An exception
\* thrown by handleRequest itself is not a rejection of the promise the
\* handler chains .catch on: it leaves the route handler (pc "uncaught").
Store(r) ==
  /\ reqs[r].pc = "idle"
  /\ \E q \in StoreInputs :
       reqs' = [reqs EXCEPT ![r] =
                  started(q, handleRequest(config, floor, q.address,
                                           storeFilename(q.path), q.tok, q.ctype),
                          <<>>)]
  /\ UNCHANGED <<config, floor, client>>

ProofsResolve(r) ==
  /\ reqs[r].pc = "awaitProofs"
  /\ reqs' = [reqs EXCEPT ![r] = onCheckProofs(@, "")]
  /\ UNCHANGED <<config, floor, client>>

ProofsReject(r) ==
  /\ reqs[r].pc = "awaitProofs"
  /\ \E e \in ProofErrors : reqs' = [reqs EXCEPT ![r] = onCheckProofs(@, e)]
  /\ UNCHANGED <<config, floor, client>>

WriteResolve(r) ==
  /\ reqs[r].pc = "awaitWrite"
  /\ \E u \in DriverURLs(reqs[r].cmd) :
       reqs' = [reqs EXCEPT ![r] = onPerformWrite(config, @, "", u)]
  /\ UNCHANGED <<config, floor, client>>

WriteReject(r) ==
  /\ reqs[r].pc = "awaitWrite"
  /\ \E e \in DriverErrors :
       reqs' = [reqs EXCEPT ![r] = onPerformWrite(config, @, e, <<>>)]
  /\ UNCHANGED <<config, floor, client>>

(***************************************************************************)
(* POST /list-files/<address> (config.ts 240-267).  The route is           *)
(* (path, express.json(), handler): the middleware parses the body, then   *)
(* the handler looks at content-length.  The content lengths of the        *)
(* requests stay below the parser's own limit.                             *)
(***************************************************************************)
onListFiles(s, e) ==
  IF e = ""
    THEN [s EXCEPT !.pc = "done", !.log = @ \o <<"listed", "respond">>,
                   !.res = writeResponse(202, "", "", <<>>)]
    ELSE caught(s, e, "driver", listFilesCatch(e, "driver"))

ListFiles(r) ==
  /\ reqs[r].pc = "idle"
  /\ \E q \in ListInputs :
       reqs' = [reqs EXCEPT ![r] =
         jsonParsed(
           IF q.clen > MaxJsonLength
             THEN Slot("done", q, <<"respond">>, "", "",
                       writeResponse(400, "", "Invalid JSON: too long", <<>>),
                       NoCmd, <<>>, <<>>, NoProofs)
             ELSE started(q, handleListFiles(config, floor, q.address, q.tok),
                          <<>>))]
  /\ UNCHANGED <<config, floor, client>>

ListResolve(r) ==
  /\ reqs[r].pc = "awaitList"
  /\ reqs' = [reqs EXCEPT ![r] = onListFiles(@, "")]
  /\ UNCHANGED <<config, floor, client>>

ListReject(r) ==
  /\ reqs[r].pc = "awaitList"
  /\ \E e \in DriverErrors : reqs' = [reqs EXCEPT ![r] = onListFiles(@, e)]
  /\ UNCHANGED <<config, floor, client>>

(***************************************************************************)
(* POST /revoke-all/<address> (config.ts 269-306).                         *)
(***************************************************************************)
\* the slot after the route handler ran for request q
revokeAll(cfg, fl, q) ==
  LET why == revokePrecheck(q.clen, q.body)
      oldestValidTimestamp == parseInt(q.body)
      h == handleAuthBump(cfg, fl, q.address, q.tok)
  IN  jsonParsed(
        IF why # ""
          THEN Slot("done", q, <<"respond">>, "", "",
                    writeResponse(400, "", why, <<>>), NoCmd, <<>>, <<>>,
                    NoProofs)
        ELSE IF h.pc = "rejected"
          THEN caught(Slot("rejected", q, h.log, "", "", NoResponse, NoCmd,
                           oldestValidTimestamp, <<>>, NoProofs),
                      h.err, h.about, revokeCatch(h.err, h.about))
        ELSE Slot(h.pc, q, h.log, "", h.about, NoResponse, NoCmd,
                  oldestValidTimestamp, <<>>, NoProofs))

Revoke(r) ==
  /\ reqs[r].pc = "idle"
  /\ \E q \in RevokeInputs :
       reqs' = [reqs EXCEPT ![r] = revokeAll(config, floor, q)]
  /\ UNCHANGED <<config, floor, client>>

\* the registry's read-modify-write and the endpoint's answer to it;
\* about holds the authenticated caller while the bump is pending
BumpSettle(r) ==
  /\ reqs[r].pc = "awaitBump"
  /\ LET s == reqs[r]
         b == bump(floor, s.req.address, s.arg[1], s.about)
     IN  /\ floor' = b.floor
         /\ reqs' = [reqs EXCEPT ![r] =
              IF b.err = ""
                THEN [s EXCEPT !.pc = "done", !.log = @ \o <<"bumped", "respond">>,
                               !.res = writeResponse(202, "", "success", <<>>)]
                ELSE caught(s, b.err, s.about, revokeCatch(b.err, s.about))]
  /\ UNCHANGED <<config, client>>

\* the latest token version the hub's authentication module understands
LATEST_AUTH_VERSION == <<"v", "1">>

\* challengeText.length of the hub_info handler: the challenge text is the
\* JSON array of its parts
challengeTextLength(challengeText) ==
  Len(challengeText[1]) + Len(challengeText[2])

\* the body and status of GET /hub_info (config.ts 308-318)
hubInfoResponse(cfg) ==
  LET challengeText == getChallengeText(cfg.serverName)
      readURLPrefix == getReadURLPrefix(cfg)
  IN  IF challengeTextLength(challengeText) < 10
        THEN writeResponse(500, "", "Server challenge text misconfigured", <<>>)
        ELSE [status |-> 200, error |-> "", message |-> "", publicURL |-> <<>>,
              challenge_text |-> challengeText,
              latest_auth_version |-> LATEST_AUTH_VERSION,
              read_url_prefix |-> readURLPrefix]

HubInfoRequest == Request("hub_info", "", <<>>, Malformed, <<>>, 0, Undefined)

GetHubInfoSetsReadURL(r) ==
  /\ reqs[r].pc = "idle"
  /\ reqs' = [reqs EXCEPT ![r] =
       Slot("done", HubInfoRequest, <<"respond">>, "", "",
            hubInfoResponse(config), NoCmd, <<>>, <<>>, NoProofs)]
  /\ config' = [config EXCEPT !.readURL = <<getReadURLPrefix(config)>>]
  /\ UNCHANGED <<floor, client>>

\* GET /hub_info (config.ts 308-318): synchronous, no authentication
GetHubInfo(r) ==
  /\ reqs[r].pc = "idle"
  /\ reqs' = [reqs EXCEPT ![r] =
       Slot("done", HubInfoRequest, <<"respond">>, "", "",
            hubInfoResponse(config), NoCmd, <<>>, <<>>, NoProofs)]
  /\ UNCHANGED <<config, floor, client>>

\* the request is over; its slot serves the next one
Release(r) ==
  /\ reqs[r].pc \in {"done", "uncaught"}
  /\ reqs' = [reqs EXCEPT ![r] = Idle]
  /\ UNCHANGED <<config, floor, client>>

Next ==
  \E r \in Reqs :
    \/ Store(r)
    \/ ProofsResolve(r)
    \/ ProofsReject(r)
    \/ WriteResolve(r)
    \/ WriteReject(r)
    \/ ListFiles(r)
    \/ ListResolve(r)
    \/ ListReject(r)
    \/ Revoke(r)
    \/ BumpSettle(r)
    \/ GetHubInfo(r)
    \/ Release(r)

Spec == Init /\ [][Next]_vars

\* The promises of the collaborators (proof checker, driver, registry)
\* settle: a pending promise is eventually resolved or rejected.
Settles(r) ==
  /\ WF_vars(ProofsResolve(r) \/ ProofsReject(r))
  /\ WF_vars(WriteResolve(r) \/ WriteReject(r))
  /\ WF_vars(ListResolve(r) \/ ListReject(r))
  /\ WF_vars(BumpSettle(r))

LiveSpec == Spec /\ \A r \in Reqs : Settles(r)

(***************************************************************************)
(* The client on its own: it makes one call with arguments of its choice.  *)
(* The hub is left as constructed.                                         *)
(***************************************************************************)
ClientInit ==
  /\ config = HubConfig(<<>>, <<>>)
  /\ floor = [a \in {} |-> 0]
  /\ reqs = [r \in Reqs |-> Idle]
  /\ client \in {Client("ready", in, Thrown("", "")) : in \in ClientCalls}

MakeAuthToken ==
  /\ client.pc = "ready"
  /\ client.in.call = "makeAuthToken"
  /\ \E salt \in Salts :
       client' = Client("done", client.in,
                        makeAuthToken(client.in.hubInfo, client.in.secretKey,
                                      client.in.hubUrl, client.in.associationToken,
                                      client.in.now, salt))
  /\ UNCHANGED <<config, floor, reqs>>

MakeLegacyAuthToken ==
  /\ client.pc = "ready"
  /\ client.in.call = "makeLegacyAuthToken"
  /\ client' = Client("done", client.in,
                      makeLegacyAuthToken(client.in.hubInfo.challenge_text,
                                          client.in.secretKey))
  /\ UNCHANGED <<config, floor, reqs>>

MakeV1AuthToken ==
  /\ client.pc = "ready"
  /\ client.in.call = "makeV1AuthToken"
  /\ \E salt \in Salts :
       client' = Client("done", client.in,
                        makeV1AuthToken(client.in.secretKey,
                                        client.in.hubInfo.challenge_text,
                                        client.in.associationToken,
                                        client.in.hubUrl, client.in.now, salt))
  /\ UNCHANGED <<config, floor, reqs>>

MakeAssociationToken ==
  /\ client.pc = "ready"
  /\ client.in.call = "makeAssociationToken"
  /\ \E salt \in Salts :
       client' = Client("done", client.in,
                        makeAssociationToken(client.in.secretKey,
                                             client.in.childPublicKey,
                                             client.in.now, salt))
  /\ UNCHANGED <<config, floor, reqs>>

ClientNext ==
  \/ MakeAuthToken
  \/ MakeLegacyAuthToken
  \/ MakeV1AuthToken
  \/ MakeAssociationToken

ClientSpec == ClientInit /\ [][ClientNext]_vars

(***************************************************************************)
(* Verification of tokens that carry an association token: one write       *)
(* request with such a token, every field of it free, reaches a hub with   *)
(* any of the configurations and a registry holding at most one floor.     *)
(***************************************************************************)
Keys == {"kA", "kB"}

AssociatedTokens ==
  { Token("v1", k, sig, chal, exp, t, <<>>,
          <<AssociationToken(child, aiss, asig, aexp)>>, scopes) :
      k \in Keys, sig \in BOOLEAN, chal \in {Challenge, getChallengeText("other")},
      exp \in BOOLEAN, t \in Times, child \in Keys, aiss \in Keys,
      asig \in BOOLEAN, aexp \in BOOLEAN, scopes \in {<<>>, PrefixA} }

AssociatedInputs ==
  { Request("store", a, PathFooBar, tok, <<>>, 0, Undefined) :
      a \in Addrs, tok \in AssociatedTokens }

Floors ==
  { [a \in {} |-> 0] } \cup { [a \in {x} |-> t] : x \in Addrs, t \in Times }

VerifyInit ==
  /\ config \in Configs
  /\ floor \in Floors
  /\ reqs = [r \in Reqs |-> Idle]
  /\ client = NoClient

StoreAssociated(r) ==
  /\ reqs[r].pc = "idle"
  /\ \E q \in AssociatedInputs :
       reqs' = [reqs EXCEPT ![r] =
                  started(q, handleRequest(config, floor, q.address,
                                           storeFilename(q.path), q.tok, q.ctype),
                          <<>>)]
  /\ UNCHANGED <<config, floor, client>>

VerifyNext == StoreAssociated("r1")

VerifySpec == VerifyInit /\ [][VerifyNext]_vars

(***************************************************************************)
(* ECIES (config.ts 392-538): encryptECIES followed by decryptECIES.       *)
(* The primitives are symbolic: a public key is the pair <<"pub", sk>> of  *)
(* its secret key, the Diffie-Hellman secret of two key pairs is the set   *)
(* of their public keys, a cipher text or a MAC is the record of what it   *)
(* was computed from.  Text is UTF-8 encoded and decoded as Buffer.from    *)
(* and Buffer.toString do it; "D800" stands for a lone surrogate and       *)
(* "FFFD" for the replacement character.                                   *)
(***************************************************************************)
PrivateKeys == {"a", "b"}

EphemeralKeys == {"e1", "e2"}

InitializationVectors == {"iv1", "iv2"}

\* keyFromPrivate(sk).getPublic()
ecPublic(sk) == <<"pub", sk>>

\* KeyPair.derive
derive(sk, pk) == {ecPublic(sk), pk}

StringContent(chars) == [type |-> "string", chars |-> chars, bytes |-> <<>>]

BufferContent(bytes) == [type |-> "buffer", chars |-> <<>>, bytes |-> bytes]

utf8Char(c) ==
  CASE c = "h" -> <<104>>
    [] c = "e'" -> <<195, 169>>
    [] OTHER -> <<239, 191, 189>>

RECURSIVE utf8Encode(_)
utf8Encode(chars) ==
  IF chars = <<>> THEN <<>> ELSE utf8Char(Head(chars)) \o utf8Encode(Tail(chars))

RECURSIVE utf8Decode(_)
utf8Decode(bytes) ==
  IF bytes = <<>> THEN <<>>
  ELSE IF Head(bytes) = 104 THEN <<"h">> \o utf8Decode(Tail(bytes))
  ELSE IF Len(bytes) >= 2 /\ SubSeq(bytes, 1, 2) = <<195, 169>>
    THEN <<"e'">> \o utf8Decode(SubSeq(bytes, 3, Len(bytes)))
  ELSE IF Len(bytes) >= 3 /\ SubSeq(bytes, 1, 3) = <<239, 191, 189>>
    THEN <<"FFFD">> \o utf8Decode(SubSeq(bytes, 4, Len(bytes)))
  ELSE <<"FFFD">> \o utf8Decode(Tail(bytes))

\* Buffer.from(content)
bufferFrom(content) ==
  IF content.type = "string" THEN utf8Encode(content.chars) ELSE content.bytes

\* buffer.toString(encoding) and Buffer.from(text, encoding)
encode(buffer, encoding) == [encoding |-> encoding, of |-> buffer]

decode(text, encoding) ==
  IF text.encoding = encoding THEN text.of ELSE <<"garbled", text.of>>

aes256CbcEncrypt(iv, key, plaintext) ==
  [iv |-> iv, key |-> key, plaintext |-> plaintext]

aes256CbcDecrypt(iv, key, ciphertext) ==
  IF ciphertext.iv = iv /\ ciphertext.key = key
    THEN ciphertext.plaintext
    ELSE <<0>>

hmacSha256(key, content) == [key |-> key, content |-> content]

equalConstTime(b1, b2) == b1 = b2

sharedSecretToKeys(sharedSecret) ==
  [encryptionKey |-> <<"sha512", "head", sharedSecret>>,
   hmacKey |-> <<"sha512", "tail", sharedSecret>>]

\* the object encryptECIES builds (config.ts 490-496); encoding is the
\* optional argument, 'hex' by default
encryptedBuffers(publicKey, content, encoding, ephemeralSK, initializationVector) ==
  LET enc == IF encoding = <<>> THEN "hex" ELSE encoding[1]
      wasString == content.type = "string"
      plainText == bufferFrom(content)
      ephemeralPK == ecPublic(ephemeralSK)
      sharedKeys == sharedSecretToKeys(derive(ephemeralSK, publicKey))
      cipherText == aes256CbcEncrypt(initializationVector,
                                     sharedKeys.encryptionKey, plainText)
      macData == <<initializationVector, ephemeralPK, cipherText>>
      mac == hmacSha256(sharedKeys.hmacKey, macData)
  IN  [iv |-> encode(initializationVector, enc),
       ephemeralPK |-> encode(ephemeralPK, enc),
       cipherText |-> encode(cipherText, enc),
       mac |-> encode(mac, enc),
       wasString |-> wasString,
       encoding |-> <<enc>>]

\* encryptECIES (config.ts 466-497): the body ends after building
\* encryptedBuffers, there is no return statement
encryptECIES(publicKey, content, encoding, ephemeralSK, initializationVector) ==
  LET built == encryptedBuffers(publicKey, content, encoding, ephemeralSK,
                                initializationVector)
  IN  Undefined

Plain(value) == [err |-> "", message |-> "", value |-> value]

Failed(kind, message) == [err |-> kind, message |-> message, value |-> Undefined]

\* decryptECIES (config.ts 510-538)
decryptECIES(privateKey, cipherObject) ==
  IF cipherObject = Undefined
    THEN Failed("TypeError", "Cannot read property 'encoding' of undefined")
  ELSE
    LET encoding == IF cipherObject.encoding # <<>> THEN cipherObject.encoding[1]
                                                    ELSE "hex"
        ephemeralPK == decode(cipherObject.ephemeralPK, encoding)
        sharedKeys == sharedSecretToKeys(derive(privateKey, ephemeralPK))
        ivBuffer == decode(cipherObject.iv, encoding)
        cipherTextBuffer == decode(cipherObject.cipherText, encoding)
        macData == <<ivBuffer, ephemeralPK, cipherTextBuffer>>
        actualMac == hmacSha256(sharedKeys.hmacKey, macData)
        expectedMac == decode(cipherObject.mac, encoding)
        plainText == aes256CbcDecrypt(ivBuffer, sharedKeys.encryptionKey,
                                      cipherTextBuffer)
    IN  IF ~equalConstTime(expectedMac, actualMac)
          THEN Failed("Error", "Decryption failed: failure in MAC check")
        ELSE IF cipherObject.wasString
          THEN Plain(StringContent(utf8Decode(plainText)))
          ELSE Plain(BufferContent(plainText))

Contents ==
  { StringContent(<<"h", "e'">>), StringContent(<<"h", "D800">>),
    BufferContent(<<104, 255>>) }

EciesCall(publicKey, content, encoding) ==
  [call |-> "encryptECIES", publicKey |-> publicKey, content |-> content,
   encoding |-> encoding]

EciesCalls ==
  { EciesCall(ecPublic(sk), c, e) :
      sk \in PrivateKeys, c \in Contents, e \in {<<>>, <<"hex">>} }

\* what the two calls left: the value encryptECIES returned, the object it
\* built, and the arguments and outcome of decryptECIES
Ecies(returned, built, privateKey, from, cipherObject, result) ==
  [returned |-> returned, encryptedBuffers |-> built, privateKey |-> privateKey,
   from |-> from, cipherObject |-> cipherObject, result |-> result]

\* the cipher objects handed to decryptECIES: the value encryptECIES
\* returned, the object it built, and that object with one field replaced
CipherObjects(out) ==
  LET b == out.encryptedBuffers
      other == encryptedBuffers(ecPublic("a"), BufferContent(<<1>>), <<>>, "e1",
                                "iv1")
  IN  [ returned   |-> out.returned,
        built      |-> b,
        mac        |-> [b EXCEPT !.mac = IF other.mac # b.mac
                                           THEN other.mac
                                           ELSE encode(<<0>>, "hex")],
        cipherText |-> [b EXCEPT !.cipherText =
                                   IF other.cipherText # b.cipherText
                                     THEN other.cipherText
                                     ELSE encode(<<0>>, "hex")],
        noEncoding |-> [b EXCEPT !.encoding = <<>>] ]

EciesInit ==
  /\ config = HubConfig(<<>>, <<>>)
  /\ floor = [a \in {} |-> 0]
  /\ reqs = [r \in Reqs |-> Idle]
  /\ client \in {Client("ready", in, Plain(Undefined)) : in \in EciesCalls}

EncryptECIES ==
  /\ client.pc = "ready"
  /\ client.in.call = "encryptECIES"
  /\ \E ephemeralSK \in EphemeralKeys, iv \in InitializationVectors :
       client' =
         Client("encrypted", client.in,
                Ecies(encryptECIES(client.in.publicKey, client.in.content,
                                   client.in.encoding, ephemeralSK, iv),
                      encryptedBuffers(client.in.publicKey, client.in.content,
                                       client.in.encoding, ephemeralSK, iv),
                      "", "", Undefined, Plain(Undefined)))
  /\ UNCHANGED <<config, floor, reqs>>

DecryptECIES ==
  /\ client.pc = "encrypted"
  /\ \E privateKey \in PrivateKeys, from \in DOMAIN CipherObjects(client.out) :
       LET cipherObject == CipherObjects(client.out)[from] IN
       client' =
         Client("decrypted", client.in,
                [client.out EXCEPT !.privateKey = privateKey, !.from = from,
                                   !.cipherObject = cipherObject,
                                   !.result = decryptECIES(privateKey,
                                                           cipherObject)])
  /\ UNCHANGED <<config, floor, reqs>>

EciesNext == EncryptECIES \/ DecryptECIES

EciesSpec == EciesInit /\ [][EciesNext]_vars

(***************************************************************************)
(* Properties.                                                             *)
(***************************************************************************)
\* position of step x in a log, 0 when absent
Pos(log, x) ==
  LET at == {i \in 1..Len(log) : log[i] = x}
  IN  IF at = {} THEN 0 ELSE CHOOSE i \in at : \A j \in at : i <= j

Logged(s, x) == Pos(s.log, x) > 0

Before(s, x, y) == Logged(s, x) /\ Pos(s.log, x) < Pos(s.log, y)

IsPrefix(a, b) == Len(a) <= Len(b) /\ SubSeq(b, 1, Len(a)) = a

WriteOrder ==
  <<"validate", "validated", "authorized", "checkProofs", "proofs",
    "performWrite", "written", "rewrite", "respond">>

\* the request of slot s is a write / list / revoke request being handled
IsStore(s) == s.pc # "idle" /\ s.req.kind = "store"

IsRevoke(s) == s.pc # "idle" /\ s.req.kind = "revoke"

\* the handler of r ran its synchronous part in this step
Handled(r) == reqs[r].pc = "idle" /\ reqs'[r].pc # "idle"

\* some scope of the list covers the path
anyScopeMatches(path, scopes) ==
  \/ \E i \in 1..Len(scopes) :
        scopes[i].scope = "putFilePrefix" /\ startsWith(path, scopes[i].domain)
  \/ \E i \in 1..Len(scopes) :
        scopes[i].scope = "putFile" /\ path = scopes[i].domain


\* the token of request q verifies when the registry is fl
TokenVerifies(q, fl) == validateAuthorizationHeader(q.tok, config, q.address, fl).err = ""

WhitelistAllows(q) ==
  config.whitelist = <<>> \/ recoveredAddress(q.tok) \in config.whitelist[1]

ScopesExclude(q) ==
  /\ getAuthenticationScopes(q.tok) # <<>>
  /\ ~anyScopeMatches(storeFilename(q.path), getAuthenticationScopes(q.tok))

\* C1: the steps of a write request occur in the order validate -> scope
\* authorization -> checkProofs -> performWrite -> URL rewrite -> response:
\* checkProofs is invoked only after validation and scope authorization
\* succeeded, performWrite only after checkProofs resolved, and the rewrite
\* only after performWrite resolved.
C1_WriteStepsInOrder ==
  \A r \in Reqs :
    LET s == reqs[r] IN
    IsStore(s) =>
      /\ IsPrefix(SelectSeq(s.log, LAMBDA x : x # "respond"), WriteOrder)
      /\ Logged(s, "checkProofs") =>
           Before(s, "validated", "checkProofs") /\ Before(s, "authorized", "checkProofs")
      /\ Logged(s, "performWrite") => Before(s, "proofs", "performWrite")
      /\ Logged(s, "rewrite") => Before(s, "written", "rewrite")
      /\ Logged(s, "respond") => s.log[Len(s.log)] = "respond"

C1_Witness ==
  \E r \in Reqs :
    /\ IsStore(reqs[r])
    /\ reqs[r].log = WriteOrder
    /\ reqs[r].res.status = 202

\* C2: a write request whose token validation, whitelist authorization or
\* scope authorization fails is rejected without side effect: checkProofs and
\* performWrite are never invoked for it and no server state changes.
C2_RejectedWriteHasNoEffect ==
  [][\A r \in Reqs :
       /\ ( /\ Handled(r)
            /\ reqs'[r].req.kind = "store"
            /\ \/ ~TokenVerifies(reqs'[r].req, floor)
               \/ ~WhitelistAllows(reqs'[r].req)
               \/ ScopesExclude(reqs'[r].req) )
          => /\ reqs'[r].err \in {"ValidationError", "AuthTokenTimestampValidationError"}
             /\ ~Logged(reqs'[r], "checkProofs")
             /\ ~Logged(reqs'[r], "performWrite")
             /\ reqs'[r].cmd = NoCmd
             /\ config' = config
             /\ floor' = floor
       /\ ( IsStore(reqs[r]) /\ ~Logged(reqs[r], "checkProofs") )
          => reqs'[r] \in {reqs[r], Idle}
    ]_vars

C2_Witness ==
  \E r \in Reqs :
    /\ IsStore(reqs[r])
    /\ ScopesExclude(reqs[r].req)
    /\ reqs[r].err = "ValidationError"
    /\ reqs[r].log = <<"validate", "validated">>

\* the handler of slot s called validate
ValidateCalled(s) == Logged(s, "validate")

\* C3: validate authorizes the signing address recovered from the token
\* against the whitelist: with a whitelist configured a request whose token
\* verifies is accepted iff the signing address is a member, and otherwise
\* fails with a ValidationError naming that address; with no whitelist every
\* signing address is accepted.
C3_WhitelistDecidesOnSigningAddress ==
  [][\A r \in Reqs :
       ( /\ Handled(r)
         /\ ValidateCalled(reqs'[r])
         /\ TokenVerifies(reqs'[r].req, floor) )
       => IF \/ config.whitelist = <<>>
             \/ recoveredAddress(reqs'[r].req.tok) \in config.whitelist[1]
            THEN Logged(reqs'[r], "validated")
            ELSE /\ ~Logged(reqs'[r], "validated")
                 /\ reqs'[r].err = "ValidationError"
                 /\ reqs'[r].about = recoveredAddress(reqs'[r].req.tok)
                 /\ reqs'[r].pc \in {"uncaught", "done"}
    ]_vars

\* a write to "foo/bar" without scopes by a whitelisted address went through,
\* a write by an address outside the whitelist failed, and a write signed by
\* an associated key was authorized by its parent's (signing) address
C3_Witness ==
  /\ config.whitelist # <<>>
  /\ \E r1, r2 \in Reqs :
       /\ IsStore(reqs[r1])
       /\ reqs[r1].req.path = PathFooBar
       /\ reqs[r1].req.tok.scopes = <<>>
       /\ reqs[r1].req.tok.assoc = <<>>
       /\ reqs[r1].res.status = 202
       /\ IsStore(reqs[r2])
       /\ reqs[r2].req.tok = V1("kB", MaxTime, <<>>)
       /\ reqs[r2].err = "ValidationError"
       /\ reqs[r2].about = "addrB"

\* C4 (as claimed): with an empty scopes list every path is allowed; with a
\* non-empty list the write is allowed iff the path starts with the domain of
\* some putFilePrefix scope or equals the domain of some putFile scope, and is
\* rejected with ValidationError otherwise.
C4_ScopesDecidePath ==
  \A r \in Reqs :
    LET s == reqs[r]
        scopes == getAuthenticationScopes(s.req.tok)
    IN  ( IsStore(s) /\ Logged(s, "validated") )
        => IF scopes = <<>> \/ anyScopeMatches(storeFilename(s.req.path), scopes)
             THEN Logged(s, "authorized")
             ELSE ~Logged(s, "authorized") /\ s.err = "ValidationError"

\* C5: when checkProofs rejects, performWrite is never invoked for the
\* request and the request ends in failure with the proof checker's error,
\* not in a publicURL response.
C5_ProofFailureStopsWrite ==
  \A r \in Reqs :
    LET s == reqs[r] IN
    ( /\ IsStore(s)
      /\ Logged(s, "checkProofs")
      /\ s.pc # "awaitProofs"
      /\ ~Logged(s, "proofs") )
    => /\ s.pc = "done"
       /\ ~Logged(s, "performWrite")
       /\ ~Logged(s, "rewrite")
       /\ s.err \in ProofErrors
       /\ s.res.error = s.err
       /\ s.res.status = 402
       /\ s.res.publicURL = <<>>

C5_Witness ==
  \E r \in Reqs :
    /\ IsStore(reqs[r])
    /\ reqs[r].log = <<"validate", "validated", "authorized", "checkProofs", "respond">>
    /\ reqs[r].err = "NotEnoughProofError"

\* C6 (as claimed): a write request whose validation fails with
\* ValidationError is answered by the write endpoint with status 401 and the
\* error's name and message.
C6_ValidationErrorAnswered401 ==
  \A r \in Reqs :
    LET s == reqs[r] IN
    ( IsStore(s) /\ s.err = "ValidationError" )
    => /\ s.pc = "done"
       /\ s.res.status = 401
       /\ s.res.error = "ValidationError"
       /\ s.res.message = s.about

\* everything validate checks of request q other than the revocation floor
\* passes: the token is well formed, signed by the key it names, built for
\* this hub's challenge and for the claimed address, not expired, properly
\* associated, not denylisted, and its signing address is whitelisted
OtherwiseValid(q) ==
  /\ q.tok.ver \in {"v1", "legacy"}
  /\ q.tok.sigOK
  /\ q.tok.chal = Challenge
  /\ publicKeyToAddress(q.tok.iss) = q.address
  /\ ~q.tok.expired
  /\ q.tok.assoc # <<>> =>
       /\ q.tok.assoc[1].sigOK
       /\ ~q.tok.assoc[1].expired
       /\ q.tok.assoc[1].childToAssociate = q.tok.iss
  /\ q.tok \notin config.blacklist
  /\ WhitelistAllows(q)

\* the address whose floor applies to the token
SignerOf(tok) ==
  IF tok.assoc # <<>> THEN publicKeyToAddress(tok.assoc[1].iss)
  ELSE publicKeyToAddress(tok.iss)

\* the bump of slot r succeeded in this step
BumpSucceeded(r) ==
  reqs[r].pc = "awaitBump" /\ reqs'[r].pc = "done" /\ reqs'[r].res.status = 202

\* C7: a revocation floor takes effect on verification: a successful
\* bump(addr, T) stores T as the floor of addr, and every request handled
\* while the floor of its token's address is T is rejected with
\* AuthTokenTimestampValidationError when the token's issuance is < T, though
\* the token verifies otherwise, and passes validation when it is >= T.
C7_FloorTakesEffect ==
  [][\A r \in Reqs :
       /\ BumpSucceeded(r) =>
            /\ reqs[r].req.address \in DOMAIN floor'
            /\ floor'[reqs[r].req.address] = reqs[r].arg[1]
       /\ ( /\ Handled(r)
            /\ ValidateCalled(reqs'[r])
            /\ OtherwiseValid(reqs'[r].req) )
          => LET q == reqs'[r].req
                 a == SignerOf(q.tok)
             IN  IF a \in DOMAIN floor /\ q.tok.iat < floor[a]
                   THEN /\ reqs'[r].err = "AuthTokenTimestampValidationError"
                        /\ ~Logged(reqs'[r], "validated")
                   ELSE /\ reqs'[r].err # "AuthTokenTimestampValidationError"
                        /\ Logged(reqs'[r], "validated")
    ]_vars

\* a floor exists (so a bump succeeded); one request was rejected for a token
\* older than it while another, by the same address with a token not older
\* than it, passed validation
C7_Witness ==
  \E r1, r2 \in Reqs :
    /\ reqs[r1].err = "AuthTokenTimestampValidationError"
    /\ OtherwiseValid(reqs[r1].req)
    /\ reqs[r1].req.tok.iat < floor[SignerOf(reqs[r1].req.tok)]
    /\ reqs[r2].req.kind = "list"
    /\ reqs[r2].pc = "awaitList"
    /\ SignerOf(reqs[r2].req.tok) = SignerOf(reqs[r1].req.tok)
    /\ reqs[r2].req.tok.iat >= floor[SignerOf(reqs[r2].req.tok)]

\* C8: the stored floor of an address never decreases (and is never
\* removed), whatever the interleaving of bumps; a bump below the current
\* floor is rejected with ValidationError and leaves the registry unchanged.
C8_FloorNeverDecreases ==
  [][/\ \A a \in DOMAIN floor : a \in DOMAIN floor' /\ floor'[a] >= floor[a]
     /\ \A r \in Reqs :
          ( /\ reqs[r].pc = "awaitBump"
            /\ reqs'[r].pc # "awaitBump"
            /\ reqs[r].req.address \in DOMAIN floor
            /\ reqs[r].arg[1] < floor[reqs[r].req.address] )
          => /\ reqs'[r].err = "ValidationError"
             /\ reqs'[r].res.status = 401
             /\ floor' = floor
    ]_vars

\* a bump by the address itself, with a non-negative timestamp below the
\* floor, was rejected
C8_Witness ==
  \E r \in Reqs :
    /\ IsRevoke(reqs[r])
    /\ Logged(reqs[r], "bump")
    /\ reqs[r].err = "ValidationError"
    /\ SignerOf(reqs[r].req.tok) = reqs[r].req.address
    /\ reqs[r].arg[1] >= 0
    /\ reqs[r].arg[1] < floor[reqs[r].req.address]

\* C9: a bump is accepted only when the authenticated caller is the address
\* being bumped: the floor of an address changes only through a revoke
\* request for that address authenticated by that address's own token, and
\* a bump whose caller is another address is rejected, the registry unchanged.
C9_SelfRevocationOnly ==
  [][/\ \A a \in Addrs :
          ( \/ (a \in DOMAIN floor') # (a \in DOMAIN floor)
            \/ a \in DOMAIN floor /\ a \in DOMAIN floor' /\ floor'[a] # floor[a] )
          => \E r \in Reqs :
               /\ BumpSucceeded(r)
               /\ reqs[r].req.address = a
               /\ publicKeyToAddress(reqs[r].req.tok.iss) = a
               /\ SignerOf(reqs[r].req.tok) = a
     /\ \A r \in Reqs :
          ( /\ Handled(r)
            /\ reqs'[r].req.kind = "revoke"
            /\ reqs'[r].arg # <<>>
            /\ publicKeyToAddress(reqs'[r].req.tok.iss) # reqs'[r].req.address )
          => reqs'[r].err = "ValidationError" /\ floor' = floor
     /\ \A r \in Reqs :
          ( /\ reqs[r].pc = "awaitBump"
            /\ reqs'[r].pc # "awaitBump"
            /\ SignerOf(reqs[r].req.tok) # reqs[r].req.address )
          => reqs'[r].err = "ValidationError" /\ floor' = floor
    ]_vars

\* a bump of addrB's floor authenticated as addrA was rejected by the registry
C9_Witness ==
  \E r \in Reqs :
    /\ IsRevoke(reqs[r])
    /\ Logged(reqs[r], "bump")
    /\ reqs[r].pc = "done"
    /\ reqs[r].err = "ValidationError"
    /\ SignerOf(reqs[r].req.tok) # reqs[r].req.address

\* C10 (as claimed): the revoke endpoint rejects a request whose
\* oldestValidTimestamp is missing, not a number or negative before
\* handleAuthBump is called, and calls handleAuthBump for every non-negative
\* integer.
C10_PrecheckRejectsNegative ==
  \A r \in Reqs :
    LET s == reqs[r]
        b == s.req.body
    IN  ( IsRevoke(s) /\ s.req.clen <= MaxJsonLength )
        => /\ ( b.t = "undefined" \/ (b.t = "number" /\ b.n < 0) ) => s.arg = <<>>
           /\ ( b.t = "number" /\ b.n >= 0 ) => s.arg = <<b.n>>

\* the write of slot s succeeded: the endpoint answered with a publicURL
Written(s) == IsStore(s) /\ s.pc = "done" /\ s.res.status = 202

\* C11: the publicURL of a successful write is the driver-returned URL with
\* the driver's read-URL prefix replaced by the configured read URL when a
\* read URL is configured, differs from the driver's prefix and the driver's
\* URL starts with the driver's prefix; the driver-returned URL otherwise.
C11_RewriteIsSubstitution ==
  \A r \in Reqs :
    LET s == reqs[r] IN
    Written(s) =>
      LET url == s.readURL[1] IN
      IF /\ config.readURL # <<>>
         /\ config.readURL[1] # driverReadURLPrefix
         /\ startsWith(url, driverReadURLPrefix)
        THEN /\ startsWith(s.res.publicURL, config.readURL[1])
             /\ Len(s.res.publicURL) =
                  Len(config.readURL[1]) + Len(url) - Len(driverReadURLPrefix)
             /\ \A i \in 1..(Len(url) - Len(driverReadURLPrefix)) :
                  s.res.publicURL[Len(config.readURL[1]) + i] =
                    url[Len(driverReadURLPrefix) + i]
        ELSE s.res.publicURL = url

\* with a read URL configured, one write's URL was rewritten and another's,
\* which lacks the driver's prefix, was passed through
C11_Witness ==
  /\ config.readURL # <<>>
  /\ config.readURL[1] # driverReadURLPrefix
  /\ \E r1, r2 \in Reqs :
       /\ Written(reqs[r1])
       /\ startsWith(reqs[r1].readURL[1], driverReadURLPrefix)
       /\ reqs[r1].res.publicURL # reqs[r1].readURL[1]
       /\ Written(reqs[r2])
       /\ ~startsWith(reqs[r2].readURL[1], driverReadURLPrefix)
       /\ reqs[r2].res.publicURL = reqs[r2].readURL[1]

\* C12: when performWrite fails the URL rewrite is not executed, no
\* publicURL is returned for the request, and the driver's failure is the
\* failure the request ends with.
C12_FailedWriteSkipsRewrite ==
  \A r \in Reqs :
    LET s == reqs[r] IN
    ( /\ IsStore(s)
      /\ Logged(s, "performWrite")
      /\ s.pc # "awaitWrite"
      /\ ~Logged(s, "written") )
    => /\ s.pc = "done"
       /\ ~Logged(s, "rewrite")
       /\ s.readURL = <<>>
       /\ s.res.publicURL = <<>>
       /\ s.res.status # 202
       /\ s.err \in DriverErrors
       /\ s.res = storeCatch(s.err, s.about)

C12_Witness ==
  \E r \in Reqs :
    /\ IsStore(reqs[r])
    /\ reqs[r].log = <<"validate", "validated", "authorized", "checkProofs",
                       "proofs", "performWrite", "respond">>
    /\ reqs[r].err = "BadPathError"
    /\ reqs[r].res.status = 403

\* the request of slot s is over: a response was written for it
Over(s) == s.pc \in {"done", "uncaught"}

\* C13 (as claimed): the write endpoint answers success with {publicURL} and
\* 202, ValidationError and AuthTokenTimestampValidationError with 401,
\* BadPathError with 403, NotEnoughProofError with 402, and every other
\* failure with 500 and the fixed message 'Server Error'.
C13_WriteStatusMapping ==
  \A r \in Reqs :
    LET s == reqs[r] IN
    ( IsStore(s) /\ Over(s) ) =>
      IF s.err = ""
        THEN s.res.status = 202 /\ s.res.publicURL # <<>>
      ELSE IF s.err \in {"ValidationError", "AuthTokenTimestampValidationError"}
        THEN s.res.status = 401
      ELSE IF s.err = "BadPathError" THEN s.res.status = 403
      ELSE IF s.err = "NotEnoughProofError" THEN s.res.status = 402
      ELSE /\ s.res.status = 500
           /\ s.res.message = "Server Error"
           /\ s.res.error = ""

\* C14 (as claimed): on the write, list-files and revoke endpoints a request
\* rejected with AuthTokenTimestampValidationError is answered 401.
C14_TimestampErrorAnswered401 ==
  \A r \in Reqs :
    LET s == reqs[r] IN
    ( Over(s) /\ s.err = "AuthTokenTimestampValidationError" )
    => s.res.status = 401

IsList(s) == s.pc # "idle" /\ s.req.kind = "list"

ListOrder == <<"json", "validate", "validated", "listFiles", "listed", "respond">>

\* C15: a list-files request goes validate -> listFiles -> response:
\* driver.listFiles is invoked only after validate succeeded, never when the
\* token does not verify or the whitelist excludes its signing address,
\* whatever putFile/putFilePrefix scopes the token declares; no proof check,
\* write or rewrite is made for it.
C15_ListFilesAfterValidate ==
  [][\A r \in Reqs :
       LET s == reqs'[r]
           q == s.req
       IN  /\ IsList(s) =>
                /\ Logged(s, "listFiles") => Before(s, "validated", "listFiles")
                /\ \A x \in {"authorized", "checkProofs", "proofs", "performWrite",
                             "written", "rewrite"} : ~Logged(s, x)
                /\ s.cmd = NoCmd
                /\ s.res.publicURL = <<>>
                /\ \/ IsPrefix(s.log, ListOrder)
                   \/ /\ s.log[Len(s.log)] = "respond"
                      /\ IsPrefix(SubSeq(s.log, 1, Len(s.log) - 1), ListOrder)
           /\ ( Handled(r) /\ q.kind = "list" /\ q.clen <= MaxJsonLength ) =>
                IF TokenVerifies(q, floor) /\ WhitelistAllows(q)
                  THEN s.pc = "awaitList" /\ Logged(s, "listFiles")
                  ELSE /\ ~Logged(s, "listFiles")
                       /\ s.pc = "uncaught"
                       /\ s.err \in {"ValidationError",
                                     "AuthTokenTimestampValidationError"}
    ]_vars

\* a list request whose token declares a putFilePrefix scope was listed
C15_Witness ==
  \E r \in Reqs :
    /\ IsList(reqs[r])
    /\ getAuthenticationScopes(reqs[r].req.tok) # <<>>
    /\ reqs[r].log = ListOrder
    /\ reqs[r].res.status = 202

\* C16 (as claimed): on the list-files and revoke endpoints a request whose
\* body is longer than 4096 bytes is rejected before its body is parsed, and
\* listFiles / bump is never reached for it.
C16_OversizedRejectedBeforeParsing ==
  \A r \in Reqs :
    LET s == reqs[r] IN
    ( /\ s.pc # "idle"
      /\ s.req.kind \in {"list", "revoke"}
      /\ s.req.clen > MaxJsonLength )
    => /\ s.res.status = 400
       /\ ~Logged(s, "listFiles")
       /\ ~Logged(s, "bump")
       /\ ~Logged(s, "json") \/ Before(s, "respond", "json")

\* how many times step x was taken
Count(log, x) == Cardinality({i \in 1..Len(log) : log[i] = x})

\* one terminal outcome: success answered 202, or a failure answered with an
\* error status; one response, written last
OneOutcome(s) ==
  /\ s.res.status # 0
  /\ (s.res.status = 202) = (s.err = "" /\ Logged(s, "respond")
                              /\ s.req.clen <= MaxJsonLength
                              /\ \E x \in {"rewrite", "listed", "bumped"} : Logged(s, x))
  /\ s.res.status # 202 => s.res.status >= 400
  /\ IF s.pc = "done"
       THEN Count(s.log, "respond") = 1 /\ s.log[Len(s.log)] = "respond"
       ELSE Count(s.log, "respond") = 0

\* C17: provided the collaborators' promises settle, every write, list or
\* revoke request reaches one terminal outcome, success or failure, with
\* exactly one response written; a failed step ends the request, nothing
\* runs after the outcome, and validate, checkProofs and performWrite are
\* each attempted at most once per request.
C17_OneTerminalOutcome ==
  /\ [][\A r \in Reqs :
          LET s == reqs'[r] IN
          /\ \A x \in {"validate", "checkProofs", "performWrite", "listFiles",
                       "bump", "respond"} : Count(s.log, x) <= 1
          /\ ( Over(s) /\ s.req.kind \in {"store", "list", "revoke"} )
               => OneOutcome(s)
          /\ ( s.pc # "idle" /\ ~Over(s) ) => s.res = NoResponse /\ s.err = ""
          /\ s.err # "" => Over(s)
          /\ Over(reqs[r]) => s \in {reqs[r], Idle}
       ]_vars
  /\ \A r \in Reqs : (reqs[r].pc # "idle") ~> Over(reqs[r])

\* a write ended in success, another request in failure after its proof
\* check was rejected
C17_Witness ==
  \E r1, r2 \in Reqs :
    /\ Written(reqs[r1])
    /\ IsStore(reqs[r2])
    /\ reqs[r2].pc = "done"
    /\ reqs[r2].err = "NotEnoughProofError"
    /\ Count(reqs[r2].log, "checkProofs") = 1

\* the association token of tok names the key that signed tok
ChildMatches(tok) == tok.assoc[1].childToAssociate = tok.iss

\* tok and its association token are sound in everything but the child:
\* both signatures verify, neither is expired, tok is bound to this hub's
\* challenge and presented for the address of its own key
SoundButForChild(q) ==
  /\ q.tok.sigOK
  /\ q.tok.assoc[1].sigOK
  /\ ~q.tok.expired
  /\ ~q.tok.assoc[1].expired
  /\ q.tok.chal = Challenge
  /\ publicKeyToAddress(q.tok.iss) = q.address

\* C18: a v1 token whose association token names a childToAssociate other
\* than the key (iss) that signed the v1 token is rejected by verification,
\* whatever its other fields; when they match and both signatures verify,
\* the address the token authorizes (the one the whitelist and the
\* revocation floor are applied to) is the one derived from the association
\* token's iss, not the child's.
C18_AssociationBindsChild ==
  \A r \in Reqs :
    LET s      == reqs[r]
        q      == s.req
        parent == publicKeyToAddress(q.tok.assoc[1].iss)
    IN  ( IsStore(s) /\ q.tok.ver = "v1" /\ q.tok.assoc # <<>> ) =>
          /\ ~ChildMatches(q.tok) =>
               /\ s.err = "ValidationError"
               /\ ~Logged(s, "validated")
               /\ ~Logged(s, "checkProofs")
          /\ ( ChildMatches(q.tok) /\ SoundButForChild(q) ) =>
               IF parent \in DOMAIN floor /\ q.tok.iat < floor[parent]
                 THEN /\ s.err = "AuthTokenTimestampValidationError"
                      /\ s.about = parent
               ELSE IF config.whitelist # <<>> /\ parent \notin config.whitelist[1]
                 THEN /\ s.err = "ValidationError"
                      /\ s.about = parent
                      /\ ~Logged(s, "validated")
               ELSE Logged(s, "validated")

\* a token sound in everything but the child named by its association token
\* was rejected
C18_Witness ==
  \E r \in Reqs :
    /\ IsStore(reqs[r])
    /\ reqs[r].req.tok.assoc # <<>>
    /\ ~ChildMatches(reqs[r].req.tok)
    /\ SoundButForChild(reqs[r].req)
    /\ reqs[r].err = "ValidationError"
    /\ reqs[r].about = "associationToken"

\* the client's call of makeAuthToken returned or threw
CalledMakeAuthToken == client.pc = "done" /\ client.in.call = "makeAuthToken"

\* the hub advertises no version, or version 0
NoVersionOrZero(hubInfo) ==
  hubInfo.latest_auth_version \in { <<>>, << <<"v", "0">> >> }

\* the hub advertises version 1, 2 or 10
VersionAtLeastOne(hubInfo) ==
  hubInfo.latest_auth_version \in
    { << <<"v", "1">> >>, << <<"v", "2">> >>, << <<"v", "1", "0">> >> }

\* C19: makeAuthToken takes the legacy path (makeLegacyAuthToken) when the
\* hub's latest_auth_version is absent or denotes version 0, and issues a v1
\* token only when the advertised version is at least 1; no v1 token is
\* issued for a hub that reports no version or version 0.
C19_VersionSelection ==
  CalledMakeAuthToken =>
    /\ NoVersionOrZero(client.in.hubInfo) =>
         /\ client.out = makeLegacyAuthToken(client.in.hubInfo.challenge_text,
                                             client.in.secretKey)
         /\ client.out.token.ver # "v1"
    /\ client.out.token.ver = "v1" => VersionAtLeastOne(client.in.hubInfo)
    /\ VersionAtLeastOne(client.in.hubInfo) =>
         /\ client.out.token.ver = "v1"
         /\ client.out.token.payload.gaiaChallenge = client.in.hubInfo.challenge_text

\* for a hub advertising "v0" and the legacy challenge, a legacy token came back
C19_Witness ==
  /\ CalledMakeAuthToken
  /\ client.in.hubInfo.latest_auth_version = << <<"v", "0">> >>
  /\ client.in.hubInfo.challenge_text = LegacyChallenge
  /\ client.out.err = ""
  /\ client.out.token.ver = "legacy"

\* the challenge text is a JSON array of four elements, the first the marker
\* and the fourth the sentinel phrase
LegacyShape(challengeText) ==
  /\ challengeText.t = "array"
  /\ Len(challengeText.a) = 4
  /\ challengeText.a[1] = "gaiahub"
  /\ challengeText.a[4] = "blockstack_storage_please_sign"

\* C20 (as claimed): for every key, makeLegacyAuthToken fails with
\* UnsupportedChallengeError and produces no token when the challenge text
\* does not have the legacy sentinel shape, and returns a base64-encoded
\* {publicKey, signature} when it has.
C20_LegacyChallengeShape ==
  ( client.pc = "done" /\ client.in.call = "makeLegacyAuthToken" ) =>
    IF LegacyShape(client.in.hubInfo.challenge_text)
      THEN /\ client.out.err = ""
           /\ client.out.token.ver = "legacy"
           /\ client.out.token.encoding = "base64"
      ELSE /\ client.out.err = "UnsupportedChallengeError"
           /\ client.out.token = NoToken

\* a request reached its end with a success response
Succeeded(s) == s.pc = "done" /\ s.res.status \in {200, 202}

IsHubInfo(s) == s.pc # "idle" /\ s.req.kind = "hub_info"

\* C21: the hub's configuration (server name, whitelist, token blacklist,
\* valid hub URLs, requireCorrectHubUrl, read URL) is fixed at construction:
\* no step of a write, list, revoke or hub_info request, in any interleaving
\* of two concurrent requests, changes it.
C21_ConfigImmutable ==
  [][ /\ config' = config
      /\ \A f \in {"serverName", "whitelist", "blacklist", "validHubUrls",
                    "requireCorrectHubUrl", "readURL"} : config'[f] = config[f]
    ]_vars

\* a revocation has moved an address's floor and a hub_info request has
\* been answered, under a configuration with a whitelist and a read URL
C21_Witness ==
  /\ config.readURL # <<>> /\ config.whitelist # <<>>
  /\ \E a \in DOMAIN floor : floor[a] > 0
  /\ IsHubInfo(reqs["r1"]) /\ Succeeded(reqs["r1"])
  /\ IsRevoke(reqs["r2"]) /\ Succeeded(reqs["r2"])

\* handleRequest built a write command and called checkProofs
CommandBuilt(s) == IsStore(s) /\ Logged(s, "checkProofs")

\* the URL path with one trailing '/' removed, if it has one
WithoutOneSlash(raw) ==
  IF raw # <<>> /\ raw[Len(raw)] = "/"
    THEN [i \in 1 .. Len(raw) - 1 |-> raw[i]]
    ELSE raw

\* C22: for every write request that gets as far as a write command, the
\* command's storageTopLevel is the address of the URL, the one handed to
\* validate and to checkProofs; its path is the URL path with at most one
\* trailing '/' removed, the same path that was checked against the token's
\* scopes and handed to checkProofs; its contentType is the request's
\* content-type header, or 'application/octet-stream' when there is none.
C22_WriteCommandFields ==
  \A r \in Reqs :
    LET s == reqs[r] IN
    CommandBuilt(s) =>
      /\ s.cmd.storageTopLevel = s.req.address
      /\ s.proofs.address = s.req.address
      /\ s.cmd.path = WithoutOneSlash(s.req.path)
      /\ s.proofs.path = s.cmd.path
      /\ authorizedByScopes(s.cmd.path, getAuthenticationScopes(s.req.tok))
      /\ s.cmd.contentType =
           IF s.req.ctype = <<>> THEN <<"application/octet-stream">>
                                 ELSE s.req.ctype

\* a write of a path ending in two slashes, sent with a content type, was
\* performed next to one sent without a content type
C22_Witness ==
  /\ Written(reqs["r1"]) /\ Written(reqs["r2"])
  /\ reqs["r1"].req.path = <<"a", "/", "b", "/", "/">>
  /\ reqs["r1"].cmd.path = <<"a", "/", "b", "/">>
  /\ reqs["r1"].cmd.contentType = <<"text/plain">>
  /\ reqs["r2"].req.ctype = <<>>
  /\ reqs["r2"].cmd.contentType = <<"application/octet-stream">>

CalledMakeV1AuthToken ==
  client.pc = "done" /\ client.in.call = "makeV1AuthToken"

CalledMakeAssociationToken ==
  client.pc = "done" /\ client.in.call = "makeAssociationToken"

\* C23: makeV1AuthToken returns 'v1:' followed by a signed token whose
\* payload has gaiaChallenge equal to the challenge given, iss equal to the
\* public key of the secret key that signs it, associationToken and hubUrl
\* as given (absent when not given), a salt drawn at random, and exp equal
\* to the time of issuance plus the fixed window, which is strictly in the
\* future; makeAssociationToken uses the same window.
C23_V1TokenPayload ==
  /\ CalledMakeV1AuthToken =>
        LET t == client.out.token IN
        /\ client.out.err = ""
        /\ t.ver = "v1"
        /\ DOMAIN t.payload = {"gaiaChallenge", "iss", "exp", "associationToken",
                               "hubUrl", "salt"}
        /\ t.payload.gaiaChallenge = client.in.hubInfo.challenge_text
        /\ t.signedWith = SubSeq(client.in.secretKey, 1, 1)
        /\ t.payload.iss = getPublicKeyFromPrivate(t.signedWith)
        /\ t.payload.associationToken = client.in.associationToken
        /\ t.payload.hubUrl = client.in.hubUrl
        /\ t.payload.salt \in Salts
        /\ t.payload.exp = client.in.now + 60 * 60 * 24 * 31 * 4
        /\ t.payload.exp > client.in.now
  /\ CalledMakeAssociationToken =>
        /\ client.out.err = ""
        /\ client.out.token.payload.exp - client.in.now = 60 * 60 * 24 * 31 * 4

\* a v1 token was made at time 1 from a 33-byte secret key, with an
\* association token and a hub URL
C23_Witness ==
  /\ CalledMakeV1AuthToken
  /\ client.in.now = 1
  /\ client.in.secretKey = <<"sB", "01">>
  /\ client.in.associationToken = <<"assoc">>
  /\ client.in.hubUrl # <<>>
  /\ client.out.token.payload.iss = "kB"

\* the read prefix the hub advertises: the configured read URL when one is
\* set, the driver's prefix otherwise
Advertised ==
  IF config.readURL # <<>> THEN config.readURL[1] ELSE driverReadURLPrefix

\* C24: the read_url_prefix reported by hub_info, and the prefix handed to
\* checkProofs, is the configured read URL when one is set and the driver's
\* prefix otherwise; every successful write whose driver URL starts with the
\* driver's prefix answers with a publicURL that starts with that advertised
\* prefix.
C24_AdvertisedReadPrefix ==
  \A r \in Reqs :
    LET s == reqs[r] IN
    /\ ( IsHubInfo(s) /\ Succeeded(s) ) => s.res.read_url_prefix = Advertised
    /\ CommandBuilt(s) => s.proofs.readURLPrefix = Advertised
    /\ ( Written(s) /\ startsWith(s.readURL[1], driverReadURLPrefix) )
         => startsWith(s.res.publicURL, Advertised)

\* under a configured read URL other than the driver's prefix, hub_info was
\* answered and a write of a driver URL was answered with a rewritten URL
C24_Witness ==
  /\ config.readURL # <<>>
  /\ config.readURL[1] # driverReadURLPrefix
  /\ IsHubInfo(reqs["r1"]) /\ Succeeded(reqs["r1"])
  /\ reqs["r1"].res.read_url_prefix = config.readURL[1]
  /\ Written(reqs["r2"])
  /\ startsWith(reqs["r2"].readURL[1], driverReadURLPrefix)
  /\ startsWith(reqs["r2"].res.publicURL, config.readURL[1])
  /\ reqs["r2"].proofs.readURLPrefix = config.readURL[1]

Encrypted == client.pc \in {"encrypted", "decrypted"}

Decrypted == client.pc = "decrypted"

IsCipherObject(x) ==
  /\ x # Undefined
  /\ {"iv", "ephemeralPK", "cipherText", "mac", "wasString"} \subseteq DOMAIN x

\* the private key handed to decryptECIES belongs to the public key the
\* content was encrypted to
RightKey == ecPublic(client.out.privateKey) = client.in.publicKey

\* the cipher object's mac is not the one encryptECIES computed for its
\* other fields, or the key is not the recipient's
MacMismatch ==
  /\ client.out.cipherObject # Undefined
  /\ \/ client.out.from \in {"mac", "cipherText"}
     \/ ~RightKey

\* C25: encryptECIES returns an object with iv, ephemeralPK, cipherText, mac
\* and wasString; decryptECIES with the recipient's private key, applied to
\* what encryptECIES returned, gives back the original content (a string for
\* a string, a buffer for a buffer); when the mac does not match,
\* decryptECIES fails with the MAC check error and returns no plaintext.
C25_EciesRoundTrip ==
  /\ Encrypted => IsCipherObject(client.out.returned)
  /\ ( Decrypted /\ client.out.from = "returned" /\ RightKey )
       => client.out.result = Plain(client.in.content)
  /\ ( Decrypted /\ MacMismatch )
       => client.out.result =
            Failed("Error", "Decryption failed: failure in MAC check")

\* the third part of C25 alone: a mismatching mac ends decryptECIES with the
\* MAC check error
EciesMacChecked ==
  ( Decrypted /\ MacMismatch )
    => client.out.result =
         Failed("Error", "Decryption failed: failure in MAC check")

\* the object encryptECIES builds decrypts to the original content, unless
\* the content is a string that is not well-formed UTF-16
EciesBuiltRoundTrip ==
  ( Decrypted /\ client.out.from \in {"built", "noEncoding"} /\ RightKey
      /\ client.in.content # StringContent(<<"h", "D800">>) )
    => client.out.result = Plain(client.in.content)

====
